---- MODULE Spec2Model ----
(***************************************************************************)
(* add_initial_state.py (MPAS-Ocean, internal tide test case): the         *)
(* construction of the z-level column grid with partial bottom cells, the  *)
(* tracer initialisation and the assembly of the output dataset.           *)
(*                                                                         *)
(* The script computes in IEEE-754 binary64 (Python floats, numpy          *)
(* float64).  The model computes in the same arithmetic: a finite double   *)
(* is a record [s, h, l, e] of value (-1)^s * m * 2^e whose significand m  *)
(* is a natural number of exactly 53 bits, held as m = h * 2^28 + l (TLC's *)
(* integers are 32 bits wide); zero has m = 0.  Every operation rounds to  *)
(* nearest, ties to even, as the hardware does.  The values of the script  *)
(* stay far inside the normal range, so overflow, subnormals and           *)
(* infinities are not modelled; the sign of zero is not kept.              *)
(***************************************************************************)
EXTENDS Integers, Sequences, FiniteSets, TLC

(***************************************************************************)
(* binary64 (numpy float64, Python float).                                 *)
(***************************************************************************)
\* The one element of a singleton.  An operation on values is written
\* Only({f(a) : a \in {x}}), which is f(x) with x evaluated once.
Only(S) == CHOOSE r \in S : TRUE

MantBits == 53
HalfBits == 28
B == 2^HalfBits

Zero == [s |-> 0, h |-> 0, l |-> 0, e |-> 0]
\* not-a-number (np.nan): the zero significand with a nonzero exponent
NaN == [s |-> 0, h |-> 0, l |-> 0, e |-> 1]

IsZero(x) == x.h = 0 /\ x.e = 0

IsNaN(x) == x.h = 0 /\ x.e # 0

BitLen4(v) == IF v >= 8 THEN 4 ELSE IF v >= 4 THEN 3 ELSE IF v >= 2 THEN 2 ELSE v
BitLen8(v) == Only({BitLen4(v \div 2^k) + k : k \in {IF v >= 16 THEN 4 ELSE 0}})
BitLen16(v) == Only({BitLen8(v \div 2^k) + k : k \in {IF v >= 256 THEN 8 ELSE 0}})
\* the number of bits of 0 <= v < 2^31
BitLen(v) == Only({BitLen16(v \div 2^k) + k : k \in {IF v >= 65536 THEN 16 ELSE 0}})

\* the number of bits of H * 2^28 + L
Width(H, L) == IF H > 0 THEN HalfBits + BitLen(H) ELSE BitLen(L)

\* (-1)^s * (H * 2^28 + L) * 2^e of at most 53 bits, k short of 53: exact
Widen(s, H, L, e, k) ==
    IF k < HalfBits
    THEN [s |-> s, h |-> H * 2^k + (L \div 2^(HalfBits - k)),
          l |-> (L % 2^(HalfBits - k)) * 2^k, e |-> e - k]
    ELSE [s |-> s, h |-> L * 2^(k - HalfBits), l |-> 0, e |-> e - k]

\* (-1)^s * (qH * 2^28 + qL) * 2^e of 53 bits, one unit in the last place further
\* from zero when up
Away(s, qH, qL, e, up) ==
    IF ~up THEN [s |-> s, h |-> qH, l |-> qL, e |-> e]
    ELSE IF qL + 1 < B THEN [s |-> s, h |-> qH, l |-> qL + 1, e |-> e]
    ELSE IF qH + 1 < 2^(MantBits - HalfBits) THEN [s |-> s, h |-> qH + 1, l |-> 0, e |-> e]
    ELSE [s |-> s, h |-> (qH + 1) \div 2, l |-> 0, e |-> e + 1]

\* a number of 53 + t bits loses its last t bits: to nearest, ties to even
Narrow(s, H, L, e, sticky, t) ==
    Only({Away(s, q[1], q[2], e + t,
               q[3] > q[4] \/ (q[3] = q[4] /\ (sticky \/ q[2] % 2 = 1))) :
            q \in {<<H \div 2^t, (L \div 2^t) + (H % 2^t) * 2^(HalfBits - t),
                     L % 2^t, 2^(t - 1)>>}})

RoundTo(s, H, L, e, sticky, n) ==
    IF n = 0 THEN Zero
    ELSE IF n <= MantBits THEN Widen(s, H, L, e, MantBits - n)
    ELSE Narrow(s, H, L, e, sticky, n - MantBits)

\* the double nearest to (-1)^s * (H * 2^28 + L + f) * 2^e, where 0 <= f < 1 and
\* sticky says f > 0 (then the number has more than 53 bits)
Round(s, H, L, e, sticky) ==
    Only({RoundTo(s, a[1], a[2], e, a[3], a[4]) :
            a \in {Only({<<b[1], b[2], b[3], Width(b[1], b[2])>> :
                           b \in {<<H, L, sticky>>}})}})

FromInt(i) ==
    IF i < 0 THEN Round(1, (-i) \div B, (-i) % B, 0, FALSE)
    ELSE Round(0, i \div B, i % B, 0, FALSE)

FNeg(x) == IF x.h = 0 THEN x ELSE [x EXCEPT !.s = 1 - x.s]

FAbs(x) == [x EXCEPT !.s = 0]

\* |x| < |y| for nonzero x, y
MagLt(x, y) ==
    \/ x.e < y.e
    \/ x.e = y.e /\ (x.h < y.h \/ (x.h = y.h /\ x.l < y.l))

\* three more bits below the significand: guard, round and sticky
GuardBits == 3
\* beyond this gap of exponents the smaller operand is under an eighth of an ulp
FarApart == MantBits + GuardBits

\* a significand with the guard bits appended: <<high, low>>
Guarded(x) ==
    <<x.h * 2^GuardBits + (x.l \div 2^(HalfBits - GuardBits)),
      (x.l % 2^(HalfBits - GuardBits)) * 2^GuardBits>>

\* <<high, low>> shifted right by d < 56 bits: <<high, low, bits were lost>>
Shifted(g, d) ==
    IF d < HalfBits
    THEN <<g[1] \div 2^d, (g[2] \div 2^d) + (g[1] % 2^d) * 2^(HalfBits - d),
           g[2] % 2^d # 0>>
    ELSE <<0, g[1] \div 2^(d - HalfBits), g[2] # 0 \/ g[1] % 2^(d - HalfBits) # 0>>

\* X + Y of pairs <<high, low>>
PairSum(X, Y) == <<X[1] + Y[1] + ((X[2] + Y[2]) \div B), (X[2] + Y[2]) % B>>

\* X - Y - borrow of pairs <<high, low>>, X > Y
PairDiff(X, Y, borrow) ==
    Only({<<X[1] - Y[1] - (IF DL < 0 THEN 1 ELSE 0), IF DL < 0 THEN DL + B ELSE DL>> :
            DL \in {X[2] - Y[2] - borrow}})

\* x + y for nonzero x, y with |x| >= |y|: the bits of y that the alignment drops
\* make the sum inexact (sticky) and are borrowed from a difference
AddOrdered(x, y) ==
    IF x.e - y.e >= FarApart THEN x
    ELSE Only({Round(x.s, m[1], m[2], x.e - GuardBits, m[3]) :
                 m \in {Only({(IF x.s = y.s THEN PairSum(X, Y)
                               ELSE PairDiff(X, Y, IF Y[3] THEN 1 ELSE 0)) \o <<Y[3]>> :
                                X \in {Guarded(x)},
                                Y \in {Shifted(Guarded(y), x.e - y.e)}})}})

AddV(x, y) ==
    IF IsNaN(x) \/ IsNaN(y) THEN NaN
    ELSE IF IsZero(x) THEN y
    ELSE IF IsZero(y) THEN x
    ELSE Only({AddOrdered(p[1], p[2]) :
                 p \in {IF MagLt(x, y) THEN <<y, x>> ELSE <<x, y>>}})

FAdd(x, y) == Only({AddV(a[1], a[2]) : a \in {<<x, y>>}})

FSub(x, y) == Only({AddV(a[1], FNeg(a[2])) : a \in {<<x, y>>}})

\* the product of two significands is summed in columns of 14-bit limbs
LimbBits == 14

\* the four limbs of a significand, lowest first
Limbs(x) ==
    <<x.l % 2^LimbBits, x.l \div 2^LimbBits, x.h % 2^LimbBits, x.h \div 2^LimbBits>>

\* the columns of the product of limbs a and b, lowest first, carries not yet taken
Columns(a, b) ==
    <<a[1] * b[1],
      a[1] * b[2] + a[2] * b[1],
      a[1] * b[3] + a[2] * b[2] + a[3] * b[1],
      a[1] * b[4] + a[2] * b[3] + a[3] * b[2] + a[4] * b[1],
      a[2] * b[4] + a[3] * b[3] + a[4] * b[2],
      a[3] * b[4] + a[4] * b[3],
      a[4] * b[4]>>

\* the limbs of the number with columns c[k..], given the carry into column k
RECURSIVE Carried(_, _, _)
Carried(c, k, carry) ==
    IF k > Len(c) THEN <<carry>>
    ELSE Only({<<t % 2^LimbBits>> \o Carried(c, k + 1, t \div 2^LimbBits) :
                 t \in {c[k] + carry}})

\* limbs 1..8 of a product of 106 bits, in 28-bit words: <<top 50 bits as high
\* and low, the 56 bits below are not zero>>
TopOf(p) ==
    Only({<<(p[8] * 2^LimbBits + p[7]) * 64 + (W[2] \div 2^22),
            (W[2] % 2^22) * 64 + (W[1] \div 2^22),
            W[1] % 2^22 # 0 \/ p[2] # 0 \/ p[1] # 0>> :
            W \in {<<p[4] * 2^LimbBits + p[3], p[6] * 2^LimbBits + p[5]>>}})

MulV(x, y) ==
    IF IsNaN(x) \/ IsNaN(y) THEN NaN
    ELSE IF IsZero(x) \/ IsZero(y) THEN Zero
    ELSE Only({Round((x.s + y.s) % 2, m[1], m[2], x.e + y.e + 50, m[3]) :
                 m \in {TopOf(Carried(Columns(Limbs(x), Limbs(y)), 1, 0))}})

FMul(x, y) == Only({MulV(a[1], a[2]) : a \in {<<x, y>>}})

\* one more bit of the quotient r / y (r < y): <<remainder high, low, the bit>>
DivStep(rH, rL, yH, yL) ==
    Only({IF d[1] > yH \/ (d[1] = yH /\ d[2] >= yL)
          THEN PairDiff(d, <<yH, yL>>, 0) \o <<1>>
          ELSE d \o <<0>> :
            d \in {<<2 * rH + ((2 * rL) \div B), (2 * rL) % B>>}})

\* i more bits of the quotient r / y (r < y): <<remainder high, low, bits so far>>;
\* the first half of the bits, then the rest
RECURSIVE DivBits(_, _, _, _, _, _)
DivBits(rH, rL, yH, yL, i, q) ==
    IF i = 0 THEN <<rH, rL, q>>
    ELSE IF i = 1
    THEN Only({<<d[1], d[2], 2 * q + d[3]>> : d \in {DivStep(rH, rL, yH, yL)}})
    ELSE Only({DivBits(a[1], a[2], yH, yL, a[4], a[3]) :
                 a \in {DivBits(rH, rL, yH, yL, i \div 2, q) \o <<i - (i \div 2)>>}})

\* the quotient of the significands of x and y, 1/2 < x/y < 2: its first bit and
\* the remainder, <<remainder high, low, the bit>>
DivFirst(x, y) ==
    IF x.h > y.h \/ (x.h = y.h /\ x.l >= y.l)
    THEN PairDiff(<<x.h, x.l>>, <<y.h, y.l>>, 0) \o <<1>>
    ELSE <<x.h, x.l, 0>>

\* x / y for y # 0: 57 bits of the quotient in two halves, and the remainder as
\* the sticky bit
DivV(x, y) ==
    IF IsNaN(x) \/ IsNaN(y) THEN NaN
    ELSE IF IsZero(x) THEN Zero
    ELSE Only({Round((x.s + y.s) % 2, d[1][3], d[2][3], x.e - y.e - 2 * HalfBits,
                     d[2][1] # 0 \/ d[2][2] # 0) :
                 d \in {Only({<<d1, DivBits(d1[1], d1[2], y.h, y.l, HalfBits, 0)>> :
                                d1 \in {Only({DivBits(f[1], f[2], y.h, y.l, HalfBits, f[3]) :
                                                f \in {DivFirst(x, y)}})}})}})

FDiv(x, y) == Only({DivV(a[1], a[2]) : a \in {<<x, y>>}})

FLt(x, y) ==
    IF IsNaN(x) \/ IsNaN(y) THEN FALSE
    ELSE IF IsZero(x) THEN (~IsZero(y) /\ y.s = 0)
    ELSE IF IsZero(y) THEN x.s = 1
    ELSE IF x.s # y.s THEN x.s = 1
    ELSE IF x.s = 0 THEN MagLt(x, y) ELSE MagLt(y, x)

FGt(x, y) == FLt(y, x)

FLe(x, y) == (x = y /\ ~IsNaN(x)) \/ FLt(x, y)

(***************************************************************************)
(* The constants of main().                                                *)
(***************************************************************************)
One == FromInt(1)
\* 0.5 = 2^52 * 2^-53
Half == [s |-> 0, h |-> 16777216, l |-> 0, e |-> -53]
maxDepth == FromInt(5000)
\* -9, the fill value of the (Time, nCells, nVertLevels) arrays
Sentinel == FMul(FromInt(-9), One)
RidgeBase == FromInt(5000)
RidgeHeight == FromInt(1000)
RidgeWidth == FromInt(150000)
SshLength == FromInt(4800000)
rho0 == FromInt(1000)
\* -2.0e-4: the double nearest to -2/10000
rhoz == [s |-> 1, h |-> 27487790, l |-> 186401581, e |-> -65]
S0 == FromInt(35)
\* 0.2: the double nearest to 2/10
config_eos_linear_alpha == [s |-> 0, h |-> 26843545, l |-> 161061274, e |-> -55]
config_eos_linear_Tref == FromInt(10)
config_eos_linear_densityref == FromInt(1000)
\* the default of -L/--nVertLevels
DefaultLevels == 50
\* maxLevelCell = np.ones(nCells, dtype=np.int32)
DefaultMaxLevel == 1
\* where range(nVertLevels-1, 0, -1) and range(maxLevelCell-1, 1, -1) stop (exclusive)
ScanStop == 0
\* a variant of FillStop: the fill loop runs down to level 1 as the scan does
FillToScanStop == ScanStop
FillStop == 1

varsZ == {"refLayerThickness", "refBottomDepth", "refZMid", "vertCoordMovementWeights"}
vars2D == {"ssh", "bottomDepth", "bottomDepthObserved"}
vars3D ==
    {"temperature", "salinity", "zMid", "layerThickness", "restingThickness", "density",
     "surfaceStress", "atmosphericPressure", "boundaryLayerDepth"}

(***************************************************************************)
(* The bounds of the model and the inputs it draws.                        *)
(***************************************************************************)
MaxLevels == 7
MaxCells == 3

\* the numbers a -L option may spell: negative, zero, small, and the default.
\* The option has no type=, so argparse hands the string on unconverted.
LevelChoices == ((-1)..MaxLevels) \cup {DefaultLevels}

\* xCell of the mesh cells, after the shift of lines 53-60 (metres)
CellX ==
    <<FromInt(2400000), FromInt(2250000), FromInt(2700000), FromInt(2475000), Zero,
      FromInt(2280000)>>

\* the meshes: nc consecutive cells of CellX, cyclically from the one at `first`
MeshCell(first, c) == CellX[((first + c - 1) % Len(CellX)) + 1]

\* np.exp at the arguments the meshes of up to MaxCells + 1 cells produce
ExpTable ==
    << [arg |-> [s |-> 1, h |-> 24159191, l |-> 10737418, e |-> -56],
        val |-> [s |-> 0, h |-> 30666441, l |-> 217127462, e |-> -53]],
       [arg |-> [s |-> 1, h |-> 21474836, l |-> 128849020, e |-> -55],
        val |-> [s |-> 0, h |-> 28593200, l |-> 220409424, e |-> -53]],
       [arg |-> [s |-> 1, h |-> 16777216, l |-> 0, e |-> -54],
        val |-> [s |-> 0, h |-> 26132217, l |-> 246186507, e |-> -53]],
       [arg |-> [s |-> 1, h |-> 18874368, l |-> 0, e |-> -53],
        val |-> [s |-> 0, h |-> 19118739, l |-> 12670603, e |-> -53]],
       [arg |-> [s |-> 1, h |-> 28353495, l |-> 10737419, e |-> -52],
        val |-> [s |-> 0, h |-> 24765791, l |-> 75693565, e |-> -55]],
       [arg |-> [s |-> 1, h |-> 18874368, l |-> 0, e |-> -51],
        val |-> [s |-> 0, h |-> 28292888, l |-> 243554295, e |-> -56]],
       [arg |-> [s |-> 1, h |-> 18874368, l |-> 0, e |-> -47],
        val |-> [s |-> 0, h |-> 17525818, l |-> 266199140, e |-> -104]],
       [arg |-> [s |-> 1, h |-> 20153630, l |-> 193273529, e |-> -47],
        val |-> [s |-> 0, h |-> 24441044, l |-> 240013215, e |-> -108]],
       [arg |-> [s |-> 1, h |-> 25324421, l |-> 32212255, e |-> -47],
        val |-> [s |-> 0, h |-> 20859811, l |-> 143021006, e |-> -122]],
       [arg |-> [s |-> 1, h |-> 25690112, l |-> 0, e |-> -47],
        val |-> [s |-> 0, h |-> 20769209, l |-> 233279365, e |-> -123]],
       [arg |-> [s |-> 1, h |-> 27179089, l |-> 246960620, e |-> -47],
        val |-> [s |-> 0, h |-> 19415278, l |-> 185348251, e |-> -127]],
       [arg |-> [s |-> 1, h |-> 29491200, l |-> 0, e |-> -47],
        val |-> [s |-> 0, h |-> 30207510, l |-> 100767988, e |-> -134]],
       [arg |-> [s |-> 1, h |-> 30282874, l |-> 236223201, e |-> -47],
        val |-> [s |-> 0, h |-> 26692561, l |-> 216074552, e |-> -136]],
       [arg |-> [s |-> 1, h |-> 31490048, l |-> 0, e |-> -47],
        val |-> [s |-> 0, h |-> 21355866, l |-> 161401400, e |-> -139]],
       [arg |-> [s |-> 1, h |-> 16777216, l |-> 0, e |-> -46],
        val |-> [s |-> 0, h |-> 26647879, l |-> 52552908, e |-> -145]],
       [arg |-> [s |-> 1, h |-> 17842176, l |-> 0, e |-> -46],
        val |-> [s |-> 0, h |-> 29344133, l |-> 176464371, e |-> -151]],
       [arg |-> [s |-> 1, h |-> 21233664, l |-> 0, e |-> -46],
        val |-> [s |-> 0, h |-> 18508718, l |-> 182144977, e |-> -169]] >>

VARIABLES
    pc,                  \* the stage main() is about to run
    err,                 \* the exception that ended the run, or "none"
    nVertLevels,         \* parser.parse_args().nVertLevels: the int default, or
                         \* the number the str of a -L option spells
    levelsFromCli,       \* -L was given: nVertLevels is a str, not the int default
    nCells, nEdges, nVertices,
    xCell,
    iCell,
    refLayerThickness, refBottomDepth, refZMid, vertCoordMovementWeights,
    ssh, bottomDepth, bottomDepthObserved, maxLevelCell,
    temperature, salinity, zMid, layerThickness, restingThickness, density,
    surfaceStress, atmosphericPressure, boundaryLayerDepth,
    normalVelocity,      \* the local of line 152
    ds,                  \* the dataset: field name -> value
    written              \* the fields write_netcdf was handed

refVars == <<refLayerThickness, refBottomDepth, refZMid, vertCoordMovementWeights>>
cellVars == <<ssh, bottomDepth, bottomDepthObserved, maxLevelCell>>
gridVars == <<zMid, layerThickness, restingThickness>>
tracerVars == <<temperature, salinity, density>>
placeVars == <<surfaceStress, atmosphericPressure, boundaryLayerDepth>>
inputVars == <<nVertLevels, levelsFromCli, nCells, nEdges, nVertices, xCell>>
outVars == <<normalVelocity, ds, written>>
vars == <<pc, err, iCell, inputVars, refVars, cellVars, gridVars, tracerVars, placeVars, outVars>>

Unset == <<>>

Levels == 0..(nVertLevels - 1)
Cells == 0..(nCells - 1)

Arr1(n, v) == Only({[k \in 0..(n - 1) |-> w] : w \in {v}})
Arr2(a, b, v) == [i \in 0..(a - 1) |-> [k \in 0..(b - 1) |-> v]]
Arr3(nc, n, v) == [t \in {0} |-> [c \in 0..(nc - 1) |-> Arr1(n, v)]]

Init ==
    /\ pc = "alloc"
    /\ err = "none"
    /\ levelsFromCli \in BOOLEAN
    /\ nVertLevels \in (IF levelsFromCli THEN LevelChoices ELSE {DefaultLevels})
    /\ nCells \in 1..MaxCells
    /\ nEdges = 3 * nCells
    /\ nVertices = 2 * nCells
    /\ \E first \in 1..Len(CellX) : xCell = [c \in Cells |-> MeshCell(first, c)]
    /\ iCell = 0
    /\ refLayerThickness = Unset /\ refBottomDepth = Unset /\ refZMid = Unset
    /\ vertCoordMovementWeights = Unset
    /\ ssh = Unset /\ bottomDepth = Unset /\ bottomDepthObserved = Unset
    /\ maxLevelCell = Unset
    /\ temperature = Unset /\ salinity = Unset /\ zMid = Unset
    /\ layerThickness = Unset /\ restingThickness = Unset /\ density = Unset
    /\ surfaceStress = Unset /\ atmosphericPressure = Unset /\ boundaryLayerDepth = Unset
    /\ normalVelocity = Unset
    /\ ds = [f \in {"xCell"} |-> xCell]
    /\ written = Unset

Raise(e) ==
    /\ pc' = "error"
    /\ err' = e

(***************************************************************************)
(* Lines 65-77: the arrays.                                                *)
(***************************************************************************)
\* np.ones(nVertLevels) of a str
ShapeIsNoInt == levelsFromCli
\* np.ones(nVertLevels) of a negative int
ShapeIsNegative == nVertLevels < 0

Allocate ==
    /\ pc = "alloc"
    /\ IF ShapeIsNoInt
       THEN /\ Raise("TypeError")
            /\ UNCHANGED <<refVars, cellVars, gridVars, tracerVars, placeVars>>
       ELSE IF ShapeIsNegative
       THEN /\ Raise("ValueError")
            /\ UNCHANGED <<refVars, cellVars, gridVars, tracerVars, placeVars>>
       ELSE /\ pc' = "refcol"
            /\ err' = err
            /\ refLayerThickness' = Arr1(nVertLevels, NaN)
            /\ refBottomDepth' = Arr1(nVertLevels, NaN)
            /\ refZMid' = Arr1(nVertLevels, NaN)
            /\ vertCoordMovementWeights' = Arr1(nVertLevels, NaN)
            /\ ssh' = Arr1(nCells, NaN)
            /\ bottomDepth' = Arr1(nCells, NaN)
            /\ bottomDepthObserved' = Arr1(nCells, NaN)
            /\ maxLevelCell' = Arr1(nCells, DefaultMaxLevel)
            /\ temperature' = Arr3(nCells, nVertLevels, Sentinel)
            /\ salinity' = Arr3(nCells, nVertLevels, Sentinel)
            /\ zMid' = Arr3(nCells, nVertLevels, Sentinel)
            /\ layerThickness' = Arr3(nCells, nVertLevels, Sentinel)
            /\ restingThickness' = Arr3(nCells, nVertLevels, Sentinel)
            /\ density' = Arr3(nCells, nVertLevels, Sentinel)
            /\ surfaceStress' = Arr3(nCells, nVertLevels, Sentinel)
            /\ atmosphericPressure' = Arr3(nCells, nVertLevels, Sentinel)
            /\ boundaryLayerDepth' = Arr3(nCells, nVertLevels, Sentinel)
    /\ UNCHANGED <<iCell, inputVars, outVars>>

(***************************************************************************)
(* Lines 82-90: the reference column.                                      *)
(***************************************************************************)
\* maxDepth/nVertLevels of Python's float and int
DivisorIsZero(n) == n = 0

RefThickness(n) == FDiv(maxDepth, FromInt(n))

\* lines 85-86 for k = lo..hi in turn: the first half of the levels, then the rest
RECURSIVE RefBottomLoop(_, _, _, _)
RefBottomLoop(rb, thk, lo, hi) ==
    IF lo > hi THEN rb
    ELSE IF lo = hi THEN [rb EXCEPT ![lo] = FAdd(rb[lo - 1], thk[lo])]
    ELSE Only({RefBottomLoop(upper, thk, ((lo + hi) \div 2) + 1, hi) :
                 upper \in {RefBottomLoop(rb, thk, lo, (lo + hi) \div 2)}})

\* a variant of RefZMidAt: the level's own bottom instead of the one above
RefZMidFromOwnBottom(thk, rb, k) ==
    IF k = 0 THEN FMul(FNeg(Half), thk[0])
    ELSE FSub(FNeg(rb[k]), FMul(Half, thk[k]))

RefZMidAt(thk, rb, k) ==
    IF k = 0 THEN FMul(FNeg(Half), thk[0])
    ELSE FSub(FNeg(rb[k - 1]), FMul(Half, thk[k]))

ReferenceColumn ==
    /\ pc = "refcol"
    /\ IF DivisorIsZero(nVertLevels)
       THEN /\ Raise("ZeroDivisionError")
            /\ UNCHANGED refVars
       ELSE /\ refLayerThickness' = Arr1(nVertLevels, RefThickness(nVertLevels))
            /\ refBottomDepth' =
                 RefBottomLoop([refBottomDepth EXCEPT ![0] = refLayerThickness'[0]],
                               refLayerThickness', 1, nVertLevels - 1)
            /\ refZMid' =
                 [k \in Levels |-> RefZMidAt(refLayerThickness', refBottomDepth', k)]
            /\ vertCoordMovementWeights' = [k \in Levels |-> IF k = 0 THEN One ELSE Zero]
            /\ pc' = "bathy"
            /\ err' = err
    /\ UNCHANGED <<iCell, inputVars, cellVars, gridVars, tracerVars, placeVars, outVars>>

(***************************************************************************)
(* Lines 94-99: bathymetry and sea-surface height.                         *)
(***************************************************************************)
RECURSIVE FMinUpTo(_, _)
FMinUpTo(a, c) ==
    IF c = 0 THEN a[0]
    ELSE Only({IF FLt(a[c], m) THEN a[c] ELSE m : m \in {FMinUpTo(a, c - 1)}})

RECURSIVE FMaxUpTo(_, _)
FMaxUpTo(a, c) ==
    IF c = 0 THEN a[0]
    ELSE Only({IF FGt(a[c], m) THEN a[c] ELSE m : m \in {FMaxUpTo(a, c - 1)}})

XMid(x, nc) == FMul(Half, FAdd(FMinUpTo(x, nc - 1), FMaxUpTo(x, nc - 1)))

\* np.exp
ExpOf(arg) ==
    Only({IF IsZero(a) THEN One
          ELSE (CHOOSE p \in {ExpTable[i] : i \in DOMAIN ExpTable} : p.arg = a).val :
            a \in {arg}})

RidgeDepth(x, xMid) ==
    Only({FSub(RidgeBase, FMul(RidgeHeight, ExpOf(FNeg(FMul(q, q))))) :
            q \in {FDiv(FSub(x, xMid), RidgeWidth)}})

SshOf(x) == FDiv(x, SshLength)

Bathymetry ==
    /\ pc = "bathy"
    /\ \E xMid \in {XMid(xCell, nCells)} :
         bottomDepth' = [c \in Cells |-> RidgeDepth(xCell[c], xMid)]
    /\ ssh' = [c \in Cells |-> SshOf(xCell[c])]
    /\ layerThickness' =
         [t \in {0} |-> [c \in Cells |->
            [layerThickness[0][c] EXCEPT ![0] = FAdd(@, ssh'[c])]]]
    /\ pc' = "cells"
    /\ UNCHANGED <<err, iCell, inputVars, refVars, bottomDepthObserved, maxLevelCell,
                   zMid, restingThickness, tracerVars, placeVars, outVars>>

(***************************************************************************)
(* Lines 101-115: one cell of the column grid.                             *)
(***************************************************************************)
\* a variant of Covers: >= instead of >
CoversOrTouches(depth, bound) == ~FLt(depth, bound)

\* the test of line 106
Covers(depth, bound) == FGt(depth, bound)

\* the loop of line 105 from level k down: the level it breaks at, or ScanStop
\* when it runs out
RECURSIVE Scan(_, _, _)
Scan(depth, rb, k) ==
    IF k <= ScanStop THEN ScanStop
    ELSE IF Covers(depth, rb[k - 1]) THEN k
    ELSE Scan(depth, rb, k - 1)

PartialThickness(depth, rb, k) == FSub(depth, rb[k - 1])

PartialZMid(depth, thickness) == FAdd(FNeg(depth), FMul(Half, thickness))

\* a variant of ZMidAbove: half of the lower layer only
ZMidAboveLowerHalf(zBelow, thkBelow, thk) == FAdd(zBelow, FMul(Half, thkBelow))

ZMidAbove(zBelow, thkBelow, thk) == FAdd(zBelow, FMul(Half, FAdd(thkBelow, thk)))

\* lines 107-110, the level the scan broke at: <<layerThickness, zMid>> of the cell
BottomLevel(lt, z, depth, rb, k) ==
    Only({<<[lt EXCEPT ![k] = part], [z EXCEPT ![k] = PartialZMid(depth, part)]>> :
            part \in {PartialThickness(depth, rb, k)}})

\* lines 113-115, one level of the loop of line 112
FillLevel(lt, z, thk, k) ==
    Only({<<lt2, [z EXCEPT ![k] = ZMidAbove(z[k + 1], lt2[k + 1], lt2[k])]>> :
            lt2 \in {[lt EXCEPT ![k] = thk[k]]}})

\* the loop of line 112 for k = hi down to lo in turn: the deeper half of the
\* levels, then the rest; <<layerThickness, zMid>> of the cell
RECURSIVE FillLoop(_, _, _, _, _)
FillLoop(lt, z, thk, hi, lo) ==
    IF hi < lo THEN <<lt, z>>
    ELSE IF hi = lo THEN FillLevel(lt, z, thk, hi)
    ELSE Only({FillLoop(a[1], a[2], thk, (lo + hi) \div 2, lo) :
                 a \in {FillLoop(lt, z, thk, hi, ((lo + hi) \div 2) + 1)}})

ColumnCell ==
    /\ pc = "cells"
    /\ iCell < nCells
    /\ \E hit \in {Scan(bottomDepth[iCell], refBottomDepth, nVertLevels - 1)} :
         /\ maxLevelCell' =
              [maxLevelCell EXCEPT ![iCell] = IF hit # ScanStop THEN hit ELSE @]
         /\ \E bottom \in
                {IF hit # ScanStop
                 THEN BottomLevel(layerThickness[0][iCell], zMid[0][iCell],
                                  bottomDepth[iCell], refBottomDepth, hit)
                 ELSE <<layerThickness[0][iCell], zMid[0][iCell]>>} :
              \E done \in {FillLoop(bottom[1], bottom[2], refLayerThickness,
                                    maxLevelCell'[iCell] - 1, FillStop + 1)} :
                /\ layerThickness' = [layerThickness EXCEPT ![0][iCell] = done[1]]
                /\ zMid' = [zMid EXCEPT ![0][iCell] = done[2]]
    /\ iCell' = iCell + 1
    /\ pc' = IF iCell + 1 = nCells THEN "level0" ELSE "cells"
    /\ UNCHANGED <<err, inputVars, refVars, ssh, bottomDepth, bottomDepthObserved,
                   restingThickness, tracerVars, placeVars, outVars>>

(***************************************************************************)
(* Lines 117-120: level 0 of every cell.                                   *)
(***************************************************************************)
TopThickness(thk, s) == FAdd(thk[0], s)

\* zMid[0, :, k+1] with k = 0 needs a second level
NoLevelOne(n) == n < 2

LevelZero ==
    /\ pc = "level0"
    /\ layerThickness' =
         [t \in {0} |-> [c \in Cells |->
            [layerThickness[0][c] EXCEPT ![0] = TopThickness(refLayerThickness, ssh[c])]]]
    /\ IF NoLevelOne(nVertLevels)
       THEN /\ Raise("IndexError")
            /\ zMid' = zMid
       ELSE /\ zMid' =
                 [t \in {0} |-> [c \in Cells |->
                    [zMid[0][c] EXCEPT ![0] =
                       ZMidAbove(zMid[0][c][1], layerThickness'[0][c][1],
                                 layerThickness'[0][c][0])]]]
            /\ pc' = "resting"
            /\ err' = err
    /\ UNCHANGED <<iCell, inputVars, refVars, cellVars, restingThickness, tracerVars,
                   placeVars, outVars>>

(***************************************************************************)
(* Lines 122-124: restingThickness and bottomDepthObserved.                *)
(***************************************************************************)
\* restingThickness[:, :] = layerThickness[0, :, :]
CopyOf(lt) == [t \in {0} |-> lt[0]]

\* a[:, 0] = v on an array of axes (Time, nCells, nVertLevels): the first two
\* indices are Time and the cell
SetSecondAxisZero(a, v) ==
    [t \in DOMAIN a |-> [c \in DOMAIN a[t] |->
       IF c = 0 THEN [k \in DOMAIN a[t][c] |-> v] ELSE a[t][c]]]

Resting ==
    /\ pc = "resting"
    /\ restingThickness' = SetSecondAxisZero(CopyOf(layerThickness), refLayerThickness[0])
    /\ bottomDepthObserved' = bottomDepth
    /\ pc' = "tracers"
    /\ UNCHANGED <<err, iCell, inputVars, refVars, ssh, bottomDepth, maxLevelCell,
                   zMid, layerThickness, tracerVars, placeVars, outVars>>

(***************************************************************************)
(* Lines 127-150: the tracers.                                             *)
(***************************************************************************)
\* a variant of Active: < instead of <=
ActiveAbove(k, mlc, c) == k < mlc[c]

\* activeCells = k <= maxLevelCell
Active(k, mlc, c) == k <= mlc[c]

DensityOf(z) == FAdd(rho0, FMul(rhoz, z))

TemperatureOf(rho) ==
    FSub(config_eos_linear_Tref,
         FDiv(FSub(rho, config_eos_linear_densityref), config_eos_linear_alpha))

Tracers ==
    /\ pc = "tracers"
    /\ salinity' =
         [t \in {0} |-> [c \in Cells |-> [k \in Levels |->
            IF Active(k, maxLevelCell, c) THEN S0 ELSE salinity[0][c][k]]]]
    /\ density' =
         [t \in {0} |-> [c \in Cells |-> [k \in Levels |->
            IF Active(k, maxLevelCell, c) THEN DensityOf(zMid[0][c][k])
            ELSE density[0][c][k]]]]
    /\ temperature' =
         [t \in {0} |-> [c \in Cells |-> [k \in Levels |->
            IF Active(k, maxLevelCell, c) THEN TemperatureOf(density'[0][c][k])
            ELSE temperature[0][c][k]]]]
    /\ pc' = "assemble"
    /\ UNCHANGED <<err, iCell, inputVars, refVars, cellVars, gridVars, placeVars, outVars>>

(***************************************************************************)
(* Lines 152-173: the dataset.                                             *)
(***************************************************************************)
\* the names line 152-173 store into ds
Stored == {"fCell", "fEdge", "fVertex", "maxLevelCell"} \cup varsZ \cup vars2D \cup vars3D

Assemble ==
    /\ pc = "assemble"
    /\ normalVelocity' = [dims |-> <<"Time", "nEdges", "nVertLevels">>, data |-> Zero]
    /\ surfaceStress' = Arr3(nCells, nVertLevels, Zero)
    /\ atmosphericPressure' = Arr3(nCells, nVertLevels, Zero)
    /\ boundaryLayerDepth' = Arr3(nCells, nVertLevels, Zero)
    /\ ds' =
         [f \in DOMAIN ds \cup Stored |->
            CASE f = "fCell" -> Arr2(nCells, nVertLevels, Zero)
              [] f = "fEdge" -> Arr2(nEdges, nVertLevels, Zero)
              [] f = "fVertex" -> Arr2(nVertices, nVertLevels, Zero)
              [] f = "maxLevelCell" -> [c \in Cells |-> maxLevelCell[c] + 1]
              [] f = "refLayerThickness" -> refLayerThickness
              [] f = "refBottomDepth" -> refBottomDepth
              [] f = "refZMid" -> refZMid
              [] f = "vertCoordMovementWeights" -> vertCoordMovementWeights
              [] f = "ssh" -> ssh
              [] f = "bottomDepth" -> bottomDepth
              [] f = "bottomDepthObserved" -> bottomDepthObserved
              [] f = "temperature" -> temperature
              [] f = "salinity" -> salinity
              [] f = "zMid" -> zMid
              [] f = "layerThickness" -> layerThickness
              [] f = "restingThickness" -> restingThickness
              [] f = "density" -> density
              [] f = "surfaceStress" -> surfaceStress'
              [] f = "atmosphericPressure" -> atmosphericPressure'
              [] f = "boundaryLayerDepth" -> boundaryLayerDepth'
              [] OTHER -> ds[f]]
    /\ pc' = "write"
    /\ UNCHANGED <<err, iCell, inputVars, refVars, cellVars, gridVars, tracerVars, written>>

(***************************************************************************)
(* Line 177: write_netcdf(ds, 'initial_state.nc').                         *)
(***************************************************************************)
Write ==
    /\ pc = "write"
    /\ written' = ds
    /\ pc' = "done"
    /\ UNCHANGED <<err, iCell, inputVars, refVars, cellVars, gridVars, tracerVars,
                   placeVars, normalVelocity, ds>>

Next ==
    \/ Allocate
    \/ ReferenceColumn
    \/ Bathymetry
    \/ ColumnCell
    \/ LevelZero
    \/ Resting
    \/ Tracers
    \/ Assemble
    \/ Write

Spec == Init /\ [][Next]_vars

(***************************************************************************)
(* The properties.                                                         *)
(***************************************************************************)
\* 2^-40, the spacing of the doubles between 4096 and 8192 (maxDepth is one)
Ulp == [s |-> 0, h |-> 16777216, l |-> 0, e |-> -92]
\* 2^-20, about 1e-6: far above any rounding error of the column
Tolerance == [s |-> 0, h |-> 16777216, l |-> 0, e |-> -72]

Near(x, y, tol) == FLe(FAbs(FSub(x, y)), tol)

\* the reference column is complete
RefBuilt ==
    \/ pc \in {"bathy", "cells", "level0", "resting", "tracers", "assemble", "write", "done"}
    \/ pc = "error" /\ err = "IndexError"

\* the per-cell loop has handled cell c
CellBuilt(c) ==
    \/ pc = "cells" /\ c < iCell
    \/ pc \in {"level0", "resting", "tracers", "assemble", "write", "done"}
    \/ pc = "error" /\ err = "IndexError"

\* the per-cell loop and the level-0 assignment are complete
GridBuilt == pc \in {"resting", "tracers", "assemble", "write", "done"}

TracersSet == pc \in {"assemble", "write", "done"}

\* acc + a[lo] + ... + a[hi], added in this order
RECURSIVE SumLoop(_, _, _, _)
SumLoop(acc, a, lo, hi) ==
    IF lo > hi THEN acc
    ELSE IF lo = hi THEN FAdd(acc, a[lo])
    ELSE Only({SumLoop(upper, a, ((lo + hi) \div 2) + 1, hi) :
                 upper \in {SumLoop(acc, a, lo, (lo + hi) \div 2)}})

\* a[0] + ... + a[k], summed from level 0
SumUpTo(a, k) == SumLoop(a[0], a, 1, k)

\* a[0] + ... + a[k - 1]
SumAbove(a, k) == IF k = 0 THEN Zero ELSE SumUpTo(a, k - 1)

MaxOf(S) == CHOOSE m \in S : \A k \in S : k <= m

\* the levels whose upper boundary lies above the bottom of cell c
CoveredLevels(c) ==
    {k \in 1..(nVertLevels - 1) : FGt(bottomDepth[c], refBottomDepth[k - 1])}

\* C1: after the per-cell loop and the level-0 assignment, the layer thicknesses
\* of the active levels 0..maxLevelCell of every cell sum to the cell's
\* bottomDepth + ssh, for nVertLevels >= 2 and refBottomDepth[0] < bottomDepth <=
\* maxDepth (stated up to a tolerance of 2^-20).
ThicknessSumsToDepth ==
    (GridBuilt /\ nVertLevels >= 2) =>
      \A c \in Cells :
        (FGt(bottomDepth[c], refBottomDepth[0]) /\ FLe(bottomDepth[c], maxDepth)) =>
          Near(SumUpTo(layerThickness[0][c], maxLevelCell[c]),
               FAdd(bottomDepth[c], ssh[c]), Tolerance)

\* C2: restingThickness is layerThickness at every cell and level >= 1, and
\* refLayerThickness[0] at level 0 of every cell.
RestingIsThicknessBelowTop ==
    (pc \in {"tracers", "assemble", "write", "done"}) =>
      \A c \in Cells :
        /\ restingThickness[0][c][0] = refLayerThickness[0]
        /\ \A k \in Levels \ {0} : restingThickness[0][c][k] = layerThickness[0][c][k]

\* C3: the scan of a cell ends at the largest k in 1..nVertLevels-1 with
\* bottomDepth > refBottomDepth[k-1]: maxLevelCell is that k, layerThickness there
\* is bottomDepth - refBottomDepth[k-1] and zMid is -bottomDepth +
\* 0.5*layerThickness.  With no such k, maxLevelCell keeps its default 1 and the
\* scan has assigned no entry of layerThickness or zMid.
ScanFindsDeepestLevel ==
    \A c \in Cells :
      CellBuilt(c) =>
        IF CoveredLevels(c) # {}
        THEN LET m == MaxOf(CoveredLevels(c))
             IN  /\ maxLevelCell[c] = m
                 /\ layerThickness[0][c][m] = FSub(bottomDepth[c], refBottomDepth[m - 1])
                 /\ zMid[0][c][m] =
                      FAdd(FNeg(bottomDepth[c]), FMul(Half, layerThickness[0][c][m]))
        ELSE /\ maxLevelCell[c] = DefaultMaxLevel
             /\ \A k \in Levels :
                  /\ zMid[0][c][k] = Sentinel
                  /\ k >= 1 => layerThickness[0][c][k] = Sentinel

\* a partial bottom cell strictly inside the column, found after the scan passed
\* a deeper level, and a bottom exactly on a level boundary
ScanFindsDeepestLevelWitness ==
    /\ pc = "level0"
    /\ \E c \in Cells :
         /\ maxLevelCell[c] >= 2
         /\ maxLevelCell[c] < nVertLevels - 1
         /\ bottomDepth[c] = refBottomDepth[maxLevelCell[c]]
         /\ layerThickness[0][c][maxLevelCell[c]] = refLayerThickness[0]

\* C4: after the tracers are set, at every cell and level k: for k <=
\* maxLevelCell salinity is S0, density is rho0 + rhoz*zMid and temperature is
\* Tref - (density - densityref)/alpha; for k > maxLevelCell the three still hold
\* the fill value -9.
TracersFollowActiveLevels ==
    TracersSet =>
      \A c \in Cells : \A k \in Levels :
        IF k <= maxLevelCell[c]
        THEN /\ salinity[0][c][k] = S0
             /\ density[0][c][k] = FAdd(rho0, FMul(rhoz, zMid[0][c][k]))
             /\ temperature[0][c][k] =
                  FSub(config_eos_linear_Tref,
                       FDiv(FSub(density[0][c][k], config_eos_linear_densityref),
                            config_eos_linear_alpha))
        ELSE /\ salinity[0][c][k] = Sentinel
             /\ density[0][c][k] = Sentinel
             /\ temperature[0][c][k] = Sentinel

\* a written column with an active bottom level and an inactive level below it
TracersFollowActiveLevelsWitness ==
    /\ pc = "done"
    /\ \E c \in Cells :
         /\ maxLevelCell[c] < nVertLevels - 1
         /\ salinity[0][c][maxLevelCell[c]] = S0
         /\ density[0][c][maxLevelCell[c]] # Sentinel
         /\ temperature[0][c][maxLevelCell[c] + 1] = Sentinel

\* the fields of the output schema
Schema == Stored \cup {"normalVelocity"}

\* C5: the dataset handed to write_netcdf has every field of the output schema,
\* normalVelocity among them, and the placeholders surfaceStress,
\* atmosphericPressure, boundaryLayerDepth, fCell, fEdge, fVertex and
\* normalVelocity are zero at every entry.
WrittenHasSchema ==
    pc = "done" =>
      /\ Schema \subseteq DOMAIN written
      /\ \A f \in {"surfaceStress", "atmosphericPressure", "boundaryLayerDepth"} :
           written[f] = Arr3(nCells, nVertLevels, Zero)
      /\ written["fCell"] = Arr2(nCells, nVertLevels, Zero)
      /\ written["fEdge"] = Arr2(nEdges, nVertLevels, Zero)
      /\ written["fVertex"] = Arr2(nVertices, nVertLevels, Zero)
      /\ written["normalVelocity"] = Arr3(nEdges, nVertLevels, Zero)

\* the recurrences of the reference column
ReferenceRecurrences ==
    /\ \A k \in Levels : refLayerThickness[k] = FDiv(maxDepth, FromInt(nVertLevels))
    /\ refBottomDepth[0] = refLayerThickness[0]
    /\ refZMid[0] = FMul(FNeg(Half), refLayerThickness[0])
    /\ \A k \in Levels \ {0} :
         /\ refBottomDepth[k] = FAdd(refBottomDepth[k - 1], refLayerThickness[k])
         /\ FGt(refBottomDepth[k], refBottomDepth[k - 1])
         /\ refZMid[k] = FSub(FNeg(refBottomDepth[k - 1]), FMul(Half, refLayerThickness[k]))
         /\ FLt(refZMid[k], refZMid[k - 1])

\* the scenario nVertLevels = 50: thickness 100, refBottomDepth[49] = 5000,
\* refZMid[0] = -50
DefaultColumn ==
    nVertLevels = DefaultLevels =>
      /\ \A k \in Levels : refLayerThickness[k] = FromInt(100)
      /\ refBottomDepth[nVertLevels - 1] = FromInt(5000)
      /\ refZMid[0] = FromInt(-50)

\* C6: the reference column follows its recurrences, refBottomDepth strictly
\* increasing and refZMid strictly decreasing, the last refBottomDepth equals
\* maxDepth, and for nVertLevels = 50 the thickness is 100, refBottomDepth[49] =
\* 5000 and refZMid[0] = -50.
ReferenceColumnSumsExactly ==
    RefBuilt =>
      /\ ReferenceRecurrences
      /\ refBottomDepth[nVertLevels - 1] = maxDepth
      /\ DefaultColumn

\* the reference column of the default 50 levels, built down to its last level
ReferenceColumnSumsExactlyWitness ==
    /\ pc = "bathy"
    /\ nVertLevels = DefaultLevels
    /\ refLayerThickness[nVertLevels - 1] = FromInt(100)
    /\ refBottomDepth[nVertLevels - 2] = FromInt(4900)
    /\ refZMid[nVertLevels - 1] = FromInt(-4950)

\* C7: a run with nVertLevels <= 0 does not end in a raised error.
NonPositiveLevelsRunSilently == nVertLevels <= 0 => pc # "error"

\* C8: for every cell with maxLevelCell >= 2, layerThickness and zMid at level 1
\* still hold the fill value -9 after the column grid is built.
LevelOneKeepsSentinel ==
    \A c \in Cells :
      (CellBuilt(c) /\ maxLevelCell[c] >= 2) =>
        /\ layerThickness[0][c][1] = Sentinel
        /\ zMid[0][c][1] = Sentinel

\* a complete grid with a cell whose level 1 lies between active, assigned levels
LevelOneKeepsSentinelWitness ==
    /\ GridBuilt
    /\ \E c \in Cells :
         /\ maxLevelCell[c] >= 3
         /\ layerThickness[0][c][2] = refLayerThickness[2]
         /\ layerThickness[0][c][1] = Sentinel
         /\ layerThickness[0][c][0] # Sentinel

\* the levels the loop of line 112 fills in cell c
FilledLevels(c) == {k \in Levels : 2 <= k /\ k < maxLevelCell[c]}

\* what the loop of line 112 assigns
FillRecurrences(c) ==
    \A k \in FilledLevels(c) :
      /\ layerThickness[0][c][k] = refLayerThickness[k]
      /\ zMid[0][c][k] =
           FAdd(zMid[0][c][k + 1],
                FMul(Half, FAdd(layerThickness[0][c][k + 1], layerThickness[0][c][k])))

\* C9 as stated: at every level 2 <= k < maxLevelCell the loop sets layerThickness
\* to refLayerThickness[k] and zMid to zMid[k+1] + 0.5*(layerThickness[k+1] +
\* layerThickness[k]), and so zMid[k] equals refZMid[k].
FilledZMidIsReference ==
    \A c \in Cells :
      CellBuilt(c) =>
        /\ FillRecurrences(c)
        /\ \A k \in FilledLevels(c) : zMid[0][c][k] = refZMid[k]

\* C9 amended: as stated, but zMid[k] equals refZMid[k] only up to the rounding of
\* the two sums: they differ by at most nVertLevels * 2^-39.
FilledZMidNearReference ==
    \A c \in Cells :
      CellBuilt(c) =>
        /\ FillRecurrences(c)
        /\ \A k \in FilledLevels(c) :
             Near(zMid[0][c][k], refZMid[k], FMul(FromInt(2 * nVertLevels), Ulp))

\* a filled level whose zMid is not the reference mid-depth
FilledZMidNearReferenceWitness ==
    /\ pc = "level0"
    /\ \E c \in Cells : \E k \in FilledLevels(c) :
         /\ zMid[0][c][k] # refZMid[k]
         /\ layerThickness[0][c][k] = refLayerThickness[k]

\* C10: after the column grid is built, zMid at every active level k of every
\* cell is the midpoint of layer k below the surface at ssh: ssh - (the
\* thicknesses above k) - 0.5*layerThickness[k]; at level 0 it is 0.5*(ssh -
\* refLayerThickness[0]), negative when ssh < refLayerThickness[0] (stated up to a
\* tolerance of 2^-20).
ZMidIsLayerMidpoint ==
    GridBuilt =>
      \A c \in Cells :
        /\ \A k \in 0..maxLevelCell[c] :
             Near(zMid[0][c][k],
                  FSub(FSub(ssh[c], SumAbove(layerThickness[0][c], k)),
                       FMul(Half, layerThickness[0][c][k])),
                  Tolerance)
        /\ Near(zMid[0][c][0], FMul(Half, FSub(ssh[c], refLayerThickness[0])), Tolerance)
        /\ FLt(ssh[c], refLayerThickness[0]) => FLt(zMid[0][c][0], Zero)

====
